---- MODULE Spec2Model ----
(***************************************************************************)
(* Model of the two Ansible modules of beat-no/cloudflare_modules:         *)
(*   cloudflare_account_instance.py  (the instance registrar)              *)
(*   cloudflare_account_lb_info.py   (the pool lister)                     *)
(* A run of either module is a straight-line script that blocks on one or  *)
(* two HTTP round trips.  The model splits a run at these blocking points: *)
(* StartRun issues the GET, a Get* action receives its outcome and runs    *)
(* the module up to its next request or its exit, a Put* action receives   *)
(* the PUT's outcome and runs the module to its exit.  The Cloudflare API  *)
(* is the environment: it keeps the account's pools and answers requests.  *)
(***************************************************************************)
EXTENDS Integers, Sequences, FiniteSets, TLC

VARIABLES
    pools,      \* the server's pool collection of the account (a sequence of pools)
    pc,         \* position of the current run: idle, get_sent, put_sent, done
    params,     \* module.params of the current run
    requests,   \* the HTTP requests the current run has issued, in order
    responses,  \* the outcomes of the answered requests of the current run, in order
    output,     \* what the run handed to exit_json / fail_json
    before,     \* the server's pools when the current run started
    prev,       \* the run before the current one, when it was a successful present:
                \* its pool_id, its instance_ip and the server's pools before it
    runs        \* number of runs started

vars == <<pools, pc, params, requests, responses, output, before, prev, runs>>

----------------------------------------------------------------------------
(* Bounds and input sets *)

MaxRuns == 4

None == [tag |-> "None"]

ACCOUNT == "acct"
EMAIL == "joe@example.com"
API_KEY == "key"

Addresses == {"a1", "a2", "a3"}
\* the instances a run may register: (instance_name, instance_weight)
Instances == {<<"web1", 1>>, <<"web2", 3>>}
States == {"present", "absent"}
\* pool ids a run may ask for: one that exists and one that does not
RequestedPoolIds == {"p1", "px"}

o1 == [enabled |-> TRUE, name |-> "db1", weight |-> 1, address |-> "a1"]
o2 == [enabled |-> FALSE, name |-> "db2", weight |-> 2, address |-> "a2"]
o3 == [enabled |-> TRUE, name |-> "db3", weight |-> 1, address |-> "a3"]
o1b == [enabled |-> TRUE, name |-> "db1b", weight |-> 2, address |-> "a1"]

\* origin lists the target pool may hold when the first run starts
InitialOrigins ==
    { <<>>, <<o1>>, <<o1, o2>>, <<o2, o3>>, <<o1, o2, o3>>, <<o1, o2, o1b>> }

Pool(id, name, origins) ==
    [id |-> id, name |-> name, enabled |-> TRUE, minimum_origins |-> 1,
     origins |-> origins]

\* a pool of the same account that no run asks for; listed before the target
OtherPool == Pool("p0", "other_pool", <<o3, o1>>)

----------------------------------------------------------------------------
(* Error messages *)

ERR_EXISTS == "Origin requested to be present already exists"
ERR_MINIMUM == "Cloudflare requires origin to contain at least one entry"
ERR_NONETYPE == "'NoneType' object has no attribute 'get'"
ERR_HTTP == "HTTP Error 500: Internal Server Error"
ERR_URL == "<urlopen error timed out>"
ERR_JSON == "No JSON object could be decoded"

NetErrors == {ERR_HTTP, ERR_URL, ERR_JSON}

----------------------------------------------------------------------------
(* cloudflare_account_instance.py: class Cloudflare *)

\* json.dumps / json.loads: a JSON text is not the object it encodes
json_dumps(obj) == [json |-> obj]

json_loads(text) == text.json

base_url(account_id) == <<"accounts", account_id, "load_balancers", "pools">>

url(account_id, pool_id) == Append(base_url(account_id), pool_id)

Headers(p) ==
    [content_type |-> "application/json", x_auth_email |-> p.email,
     x_auth_key |-> p.api_key]

\* request with the single-pool url used for the GET as well
request_single_url(content, p) ==
    [method |-> IF content = None THEN "GET" ELSE "PUT",
     url |-> url(p.account_id, p.pool_id),
     headers |-> Headers(p), data |-> content]

\* Cloudflare.request up to opener.open: content None means GET on the
\* collection, anything else a PUT on the pool with the content as data.
request(content, p) ==
    IF content = None
    THEN [method |-> "GET", url |-> base_url(p.account_id),
          headers |-> Headers(p), data |-> None]
    ELSE [method |-> "PUT", url |-> url(p.account_id, p.pool_id),
          headers |-> Headers(p), data |-> content]

\* next((item for item in pools if item['id'] == self.pool_id), None)
req_pool_info(result, pool_id) ==
    LET hits == {i \in 1..Len(result) : result[i].id = pool_id}
    IN  IF hits = {} THEN None
        ELSE result[CHOOSE i \in hits : \A j \in hits : i <= j]

\* the lookup looking at the first origin only
get_origin_by_ip_head(origins, instance_ip) ==
    IF origins # <<>> /\ origins[1].address = instance_ip THEN origins[1] ELSE None

\* the lookup comparing the wrong key of the origin
get_origin_by_name(origins, instance_ip) ==
    LET hits == {i \in 1..Len(origins) : origins[i].name = instance_ip}
    IN  IF hits = {} THEN None
        ELSE origins[CHOOSE i \in hits : \A j \in hits : i <= j]

\* next((item for item in origins if item['address'] == self.instance_ip), None)
get_origin_by_ip(origins, instance_ip) ==
    LET hits == {i \in 1..Len(origins) : origins[i].address = instance_ip}
    IN  IF hits = {} THEN None
        ELSE origins[CHOOSE i \in hits : \A j \in hits : i <= j]

\* the new origin with name and address swapped
new_origin_swapped(p) ==
    [enabled |-> TRUE, name |-> p.instance_ip, weight |-> p.instance_weight,
     address |-> p.instance_name]

new_origin(p) ==
    [enabled |-> TRUE, name |-> p.instance_name, weight |-> p.instance_weight,
     address |-> p.instance_ip]

\* the filter dropping the first origin at instance_ip only
desired_origins_state_first(origins, instance_ip) ==
    LET hits == {i \in 1..Len(origins) : origins[i].address = instance_ip}
    IN  IF hits = {} THEN origins
        ELSE LET k == CHOOSE i \in hits : \A j \in hits : i <= j
             IN  SubSeq(origins, 1, k - 1) \o SubSeq(origins, k + 1, Len(origins))

\* list(filter(lambda i: i['address'] != self.instance_ip, origins))
desired_origins_state(origins, instance_ip) ==
    SelectSeq(origins, LAMBDA i : i.address # instance_ip)

Raise(msg) == [raise |-> msg]
Send(content) == [content |-> content]
Raised(r) == "raise" \in DOMAIN r

\* req_present putting the new origin first
req_present_prepend(current_state, p) ==
    IF current_state = None THEN Raise(ERR_NONETYPE)
    ELSE IF get_origin_by_ip(current_state.origins, p.instance_ip) # None
    THEN Raise(ERR_EXISTS)
    ELSE Send(json_dumps([name |-> current_state.name,
                          origins |-> <<new_origin(p)>> \o current_state.origins]))

\* req_present after the pool lookup: an exception or the PUT content
req_present(current_state, p) ==
    IF current_state = None THEN Raise(ERR_NONETYPE)
    ELSE IF get_origin_by_ip(current_state.origins, p.instance_ip) # None
    THEN Raise(ERR_EXISTS)
    ELSE Send(json_dumps([name |-> current_state.name,
                          origins |-> Append(current_state.origins, new_origin(p))]))

\* req_absent with Cloudflare's documented minimum of one origin
req_absent_min_one(current_state, p) ==
    IF current_state = None THEN Raise(ERR_NONETYPE)
    ELSE LET kept == desired_origins_state(current_state.origins, p.instance_ip)
         IN  IF Len(kept) < 1 THEN Raise(ERR_MINIMUM)
             ELSE Send(json_dumps([name |-> current_state.name, origins |-> kept]))

\* req_absent after the pool lookup: an exception or the PUT content
req_absent(current_state, p) ==
    IF current_state = None THEN Raise(ERR_NONETYPE)
    ELSE LET kept == desired_origins_state(current_state.origins, p.instance_ip)
         IN  IF Len(kept) <= 1 THEN Raise(ERR_MINIMUM)
             ELSE Send(json_dumps([name |-> current_state.name, origins |-> kept]))

\* cloudflare_account_instance: dispatch on state
transition(current_state, p) ==
    IF p.state = "present" THEN req_present(current_state, p)
    ELSE req_absent(current_state, p)

\* exit_json reporting changed only when the stored origins differ
exit_changed_diff(resp) ==
    [changed |-> resp.result.origins # req_pool_info(before, resp.result.id).origins,
     response |-> resp]

exit_changed(resp) == [changed |-> TRUE, response |-> resp]

fail_json(msg) == [failed |-> TRUE, msg |-> msg]

----------------------------------------------------------------------------
(* cloudflare_account_lb_info.py *)

\* Cloudflare.request of the lister: always the collection url, no data
lb_request(method, p) ==
    [method |-> method, url |-> base_url(p.account_id),
     headers |-> Headers(p), data |-> None]

rec_info(p) == lb_request("GET", p)

\* the lister keeping the first pool only
exit_clbs_first(response) == [clbs |-> SubSeq(response.result, 1, 1)]

exit_clbs(response) == [clbs |-> response.result]

----------------------------------------------------------------------------
(* The Cloudflare API as the modules see it *)

\* text of the answer to a GET on the collection
ServerList == json_dumps([success |-> TRUE, result |-> pools])

\* the collection after a PUT of the JSON text data on pool_id: the pool's
\* name and origins are replaced by those of the document
ServerStore(pool_id, data) ==
    [i \in 1..Len(pools) |->
        IF pools[i].id = pool_id
        THEN [pools[i] EXCEPT !.name = json_loads(data).name,
                              !.origins = json_loads(data).origins]
        ELSE pools[i]]

\* text of the answer to that PUT: the pool as stored
ServerPutBody(pool_id, data) ==
    json_dumps([success |-> TRUE,
                result |-> req_pool_info(ServerStore(pool_id, data), pool_id)])

----------------------------------------------------------------------------
(* Runs *)

InstanceParams ==
    { [module |-> "instance", account_id |-> ACCOUNT, email |-> EMAIL,
       api_key |-> API_KEY, pool_id |-> id, state |-> st, instance_ip |-> ip,
       instance_name |-> inst[1], instance_weight |-> inst[2], wait |-> FALSE] :
      id \in RequestedPoolIds, st \in States, ip \in Addresses, inst \in Instances }

ListerParams ==
    [module : {"lb_info"}, account_id : {ACCOUNT}, email : {EMAIL},
     api_key : {API_KEY}]

Failed == pc = "done" /\ "failed" \in DOMAIN output
Succeeded == pc = "done" /\ "failed" \notin DOMAIN output

Init ==
    /\ pools \in {<<OtherPool, Pool("p1", "pool_name", os)>> : os \in InitialOrigins}
    /\ pc = "idle"
    /\ params = None
    /\ requests = <<>>
    /\ responses = <<>>
    /\ output = None
    /\ before = pools
    /\ prev = None
    /\ runs = 0

\* main() up to the first opener.open: both modules begin with the GET
StartRun(p) ==
    /\ pc \in {"idle", "done"}
    /\ runs < MaxRuns
    /\ runs' = runs + 1
    /\ prev' = IF Succeeded /\ params.module = "instance" /\ params.state = "present"
               THEN [pool_id |-> params.pool_id, instance_ip |-> params.instance_ip,
                     before |-> before]
               ELSE None
    /\ before' = pools
    /\ params' = p
    /\ requests' = << IF p.module = "instance" THEN request(None, p) ELSE rec_info(p) >>
    /\ responses' = <<>>
    /\ output' = None
    /\ pc' = "get_sent"
    /\ UNCHANGED pools

StartInstance == \E p \in InstanceParams : StartRun(p)

StartLister == \E p \in ListerParams : StartRun(p)

\* the registrar after a parsed GET response: raise, or issue the PUT
InstanceAfterGet(response) ==
    LET r == transition(req_pool_info(response.result, params.pool_id), params)
    IN  IF Raised(r)
        THEN /\ output' = fail_json(r.raise)
             /\ pc' = "done"
             /\ UNCHANGED requests
        ELSE /\ requests' = Append(requests, request(r.content, params))
             /\ pc' = "put_sent"
             /\ UNCHANGED output

\* the lister after a parsed GET response
ListerAfterGet(response) ==
    /\ output' = exit_clbs(response)
    /\ pc' = "done"
    /\ UNCHANGED requests

GetOk ==
    /\ pc = "get_sent"
    /\ responses' = Append(responses, [status |-> "ok", body |-> json_loads(ServerList)])
    /\ IF params.module = "instance"
       THEN InstanceAfterGet(json_loads(ServerList))
       ELSE ListerAfterGet(json_loads(ServerList))
    /\ UNCHANGED <<pools, params, before, prev, runs>>

\* a failed GET answered by sending the GET again
GetFailRetry ==
    /\ pc = "get_sent"
    /\ \E e \in NetErrors :
         responses' = Append(responses, [status |-> e, body |-> None])
    /\ requests' = Append(requests, request(None, params))
    /\ UNCHANGED <<pools, pc, params, output, before, prev, runs>>

\* opener.open or json.loads raises: main's except reports str(err)
GetFail ==
    /\ pc = "get_sent"
    /\ \E e \in NetErrors :
         /\ responses' = Append(responses, [status |-> e, body |-> None])
         /\ output' = fail_json(e)
    /\ pc' = "done"
    /\ UNCHANGED <<pools, params, requests, before, prev, runs>>

PutTarget == requests[2].url[5]

PutOk ==
    /\ pc = "put_sent"
    /\ pools' = ServerStore(PutTarget, requests[2].data)
    /\ responses' = Append(responses,
                      [status |-> "ok",
                       body |-> json_loads(ServerPutBody(PutTarget, requests[2].data))])
    /\ output' = exit_changed(json_loads(ServerPutBody(PutTarget, requests[2].data)))
    /\ pc' = "done"
    /\ UNCHANGED <<params, requests, before, prev, runs>>

\* the server rejects the PUT, or the request never reaches it
PutFail ==
    /\ pc = "put_sent"
    /\ \E e \in {ERR_HTTP, ERR_URL} :
         /\ responses' = Append(responses, [status |-> e, body |-> None])
         /\ output' = fail_json(e)
    /\ pc' = "done"
    /\ UNCHANGED <<pools, params, requests, before, prev, runs>>

\* the server stores the PUT but its answer is lost or is not JSON
PutLost ==
    /\ pc = "put_sent"
    /\ pools' = ServerStore(PutTarget, requests[2].data)
    /\ \E e \in {ERR_URL, ERR_JSON} :
         /\ responses' = Append(responses, [status |-> e, body |-> None])
         /\ output' = fail_json(e)
    /\ pc' = "done"
    /\ UNCHANGED <<params, requests, before, prev, runs>>

Next ==
    \/ StartInstance
    \/ StartLister
    \/ GetOk
    \/ GetFail
    \/ PutOk
    \/ PutFail
    \/ PutLost

Spec == Init /\ [][Next]_vars

\* the same runs against a server that answers every request
NextAnswered ==
    \/ StartInstance
    \/ StartLister
    \/ GetOk
    \/ PutOk

SpecAnswered == Init /\ [][NextAnswered]_vars

----------------------------------------------------------------------------
(* Vocabulary of the properties, stated without the operators of the code *)

IsInstance == params # None /\ params.module = "instance"
IsLister == params # None /\ params.module = "lb_info"
IsPresent == IsInstance /\ params.state = "present"
IsAbsent == IsInstance /\ params.state = "absent"

\* the GET of the current run was answered with a parsed body
GetAnswered == Len(responses) >= 1 /\ responses[1].status = "ok"
GetFailed == Len(responses) >= 1 /\ responses[1].status # "ok"

\* the pools of the GET response whose id is the requested pool_id
Matching == {q \in {responses[1].body.result[i] : i \in 1..Len(responses[1].body.result)} :
               q.id = params.pool_id}
PoolFound == GetAnswered /\ Matching # {}
PoolMissing == GetAnswered /\ Matching = {}
Fetched == CHOOSE q \in Matching : TRUE

AddressesOf(origins) == {origins[i].address : i \in 1..Len(origins)}

NoSharedAddress(origins) ==
    \A i, j \in 1..Len(origins) : origins[i].address = origins[j].address => i = j

RECURSIVE Without(_, _)
Without(origins, ip) ==
    IF origins = <<>> THEN <<>>
    ELSE IF Head(origins).address = ip THEN Without(Tail(origins), ip)
    ELSE <<Head(origins)>> \o Without(Tail(origins), ip)

\* the document the PUT carries
PutDocument == requests[2].data.json

Methods == [i \in 1..Len(requests) |-> requests[i].method]
PutCount == Cardinality({i \in 1..Len(requests) : requests[i].method = "PUT"})

CollectionUrl == <<"accounts", params.account_id, "load_balancers", "pools">>
SinglePoolUrl == <<"accounts", params.account_id, "load_balancers", "pools", params.pool_id>>

\* the origins the server holds for pool id in the collection ps
OriginsIn(ps, id) == (CHOOSE q \in {ps[i] : i \in 1..Len(ps)} : q.id = id).origins

----------------------------------------------------------------------------
(* Properties *)

\* C1: a present run whose pool_id matches a pool of the GET response and whose
\* instance_ip is the address of none of its origins issues exactly one PUT,
\* whose body holds only the pool's name and the fetched origins in their order
\* followed by the new entry {enabled: true, name, weight, address}.
C1_PresentAppendsLast ==
    (IsPresent /\ PoolFound /\ params.instance_ip \notin AddressesOf(Fetched.origins))
    => /\ Methods = <<"GET", "PUT">>
       /\ DOMAIN PutDocument = {"name", "origins"}
       /\ PutDocument.name = Fetched.name
       /\ PutDocument.origins =
            Fetched.origins \o
            << [enabled |-> TRUE, name |-> params.instance_name,
                weight |-> params.instance_weight, address |-> params.instance_ip] >>

C1_Witness ==
    /\ IsPresent /\ PoolFound /\ Succeeded
    /\ Len(Fetched.origins) = 2
    /\ params.instance_ip \notin AddressesOf(Fetched.origins)
    /\ Len(PutDocument.origins) = 3
    /\ PutDocument.origins[3].address = params.instance_ip

\* C2: a present run whose instance_ip is the address of an origin already in
\* the fetched pool ends in failure with the 'already exists' error and never
\* issues a PUT.
C2_DuplicateRejected ==
    (IsPresent /\ PoolFound /\ params.instance_ip \in AddressesOf(Fetched.origins))
    => /\ Failed
       /\ output.msg = "Origin requested to be present already exists"
       /\ Methods = <<"GET">>

C2_Witness ==
    /\ IsPresent /\ PoolFound /\ Failed
    /\ Len(Fetched.origins) = 3
    /\ Fetched.origins[3].address = params.instance_ip
    /\ Fetched.origins[1].address # params.instance_ip
    /\ output.msg = ERR_EXISTS
    /\ PutCount = 0

C4_AbsentFilters ==
    (IsAbsent /\ Succeeded)
    => /\ Methods = <<"GET", "PUT">>
       /\ PoolFound
       /\ PutDocument =
            [name |-> Fetched.name,
             origins |-> Without(Fetched.origins, params.instance_ip)]

C4_Witness ==
    /\ IsAbsent /\ Succeeded /\ PoolFound
    /\ Len(Fetched.origins) = 3
    /\ Fetched.origins[2].address = params.instance_ip
    /\ PutDocument.origins = <<Fetched.origins[1], Fetched.origins[3]>>
\* C5: a present or absent run whose pool_id is the id of no pool of the GET
\* response fails with an explicit "pool not found" error, never with the
\* null-attribute fault of reading name/origins of the absent lookup result,
\* and issues no PUT.
C5_PoolNotFoundExplicit ==
    (IsInstance /\ PoolMissing)
    => /\ Failed
       /\ output.msg # "'NoneType' object has no attribute 'get'"
       /\ PutCount = 0

\* C6: a registrar run that ends successfully reports changed = true with the
\* PUT response body under `response`, also when the PUT origin list equals
\* the fetched one (an absent run for an instance_ip in no origin of a pool
\* with at least two origins still issues the PUT with the unchanged list);
\* a run that ends in failure never reports changed = true.
C6_ChangedAlwaysTrue ==
    /\ (IsInstance /\ Succeeded)
       => /\ DOMAIN output = {"changed", "response"}
          /\ output.changed = TRUE
          /\ Len(responses) = 2
          /\ responses[2].status = "ok"
          /\ output.response = responses[2].body
    /\ (IsInstance /\ Failed)
       => ~("changed" \in DOMAIN output /\ output.changed = TRUE)
    /\ (IsAbsent /\ PoolFound /\ Len(Fetched.origins) >= 2
          /\ params.instance_ip \notin AddressesOf(Fetched.origins))
       => /\ Methods = <<"GET", "PUT">>
          /\ PutDocument.origins = Fetched.origins
          /\ (Len(responses) = 2 /\ responses[2].status = "ok")
             => (Succeeded /\ output.changed = TRUE /\ pools = before)

C6_Witness ==
    /\ IsAbsent /\ PoolFound /\ Succeeded
    /\ params.instance_ip \notin AddressesOf(Fetched.origins)
    /\ PutDocument.origins = Fetched.origins
    /\ pools = before
    /\ output.changed = TRUE

\* C7: a lister run whose GET succeeds issues exactly one request, a GET to the
\* account's pool collection url and never a PUT, and outputs under `clbs` the
\* response's `result` array: the same pools in the same order, unmodified.
C7_ListerVerbatim ==
    /\ IsLister => (Len(requests) = 1 /\ PutCount = 0)
    /\ (IsLister /\ GetAnswered)
       => /\ Methods = <<"GET">>
          /\ requests[1].url = CollectionUrl
          /\ Succeeded
          /\ DOMAIN output = {"clbs"}
          /\ output.clbs = responses[1].body.result
          /\ output.clbs = pools

C7_Witness ==
    /\ IsLister /\ GetAnswered /\ Succeeded
    /\ Len(output.clbs) = 2
    /\ Len(output.clbs[2].origins) = 4

\* C8: the requests of a registrar run are a prefix of [GET collection url,
\* PUT single-pool url]; the PUT follows only a received and parsed GET
\* response; when the GET fails the run ends in failure without a PUT.
C8_GetThenAtMostOnePut ==
    IsInstance
    => /\ Len(requests) \in {1, 2}
       /\ requests[1].method = "GET" /\ requests[1].url = CollectionUrl
       /\ requests[1].data = None
       /\ Len(requests) = 2
          => /\ requests[2].method = "PUT" /\ requests[2].url = SinglePoolUrl
             /\ GetAnswered
       /\ Len(responses) <= Len(requests)
       /\ pc = "get_sent" => (Len(requests) = 1 /\ responses = <<>>)
       /\ pc = "put_sent" => (Len(requests) = 2 /\ Len(responses) = 1)
       /\ GetFailed => (Failed /\ Len(requests) = 1
                         /\ output.msg = responses[1].status)

C8_Witness ==
    /\ IsInstance /\ pc = "done"
    /\ Methods = <<"GET", "PUT">>
    /\ Len(responses) = 2
    /\ runs = 2

\* C9: against a server that stores each PUT origin list, a pool in which no
\* two origins share an address still has none after any step of any present
\* or absent run, so from such a pool no sequence of runs produces one.
C9_NoSharedAddressKept ==
    [][\A i \in 1..Len(pools) :
         NoSharedAddress(pools[i].origins) => NoSharedAddress(pools'[i].origins)]_vars

C9_Witness ==
    /\ IsPresent /\ Succeeded /\ runs = 3
    /\ NoSharedAddress(OriginsIn(before, params.pool_id))
    /\ Len(OriginsIn(pools, params.pool_id)) = Len(OriginsIn(before, params.pool_id)) + 1
    /\ NoSharedAddress(OriginsIn(pools, params.pool_id))

====
